---- MODULE Spec2Model ----
(***************************************************************************)
(* Model of the AI-visibility analyser (app/services): the scoring engine, *)
(* the recommendation generator, the robots policy evaluator, the three    *)
(* document components and the orchestrator analyze_url.                   *)
(*                                                                         *)
(* Python dicts are records; d.get(k, default) is Get(d, k, default).      *)
(* A call that ends in an exception yields a record with raised = TRUE.    *)
(* Display strings ("detail", "description", "impact") are left out unless *)
(* computing them can raise.                                               *)
(***************************************************************************)
EXTENDS Integers, Sequences, FiniteSets, TLC

VARIABLES
    pc,               \* position of the running specification
    \* analyze_url
    status_code,      \* what fetch_url returned: the status code,
    is_ai_blocked,    \*   the access-degraded flag,
    html,             \*   and the page (as the tree a fresh parse gives)
    requests,         \* the requests fetch_url issued and what came of them
    soup,             \* the parsed document the components share
    ran,              \* the components that have run on soup, in order
    content_data,     \* ContentResult
    structure_data,   \* StructureResult
    robots_data,      \* RobotsResult (crawlers_status in analyze_url)
    schema_data,      \* SchemaResult
    scores,           \* what calculate_score returned
    recommendations,  \* what generate_recommendations returned
    result,           \* what analyze_url returned
    \* analyze_robots and parse_robots
    ai_crawlers,      \* the requested crawler names, in order
    response,         \* the response to the robots request
    line_no,          \* the line the loop over lines reads next
    current_agents,
    rules,
    crawler_no,       \* the crawler the loop over ai_crawlers checks next
    crawlers_status,
    blocked_count

urlVars == <<status_code, is_ai_blocked, html, requests, result>>
docVars == <<soup, ran, content_data, structure_data, schema_data>>
scoreVars == <<scores, recommendations>>
robotsVars == <<ai_crawlers, response, line_no, current_agents, rules,
                crawler_no, crawlers_status, blocked_count>>

vars == <<pc, urlVars, docVars, robots_data, scoreVars, robotsVars>>

NONE == "none"

\* dict.get(key, default)
Get(d, k, default) == IF k \in DOMAIN d THEN d[k] ELSE default

Range(s) == {s[i] : i \in DOMAIN s}

RECURSIVE SumSeq(_)
SumSeq(s) == IF s = <<>> THEN 0 ELSE Head(s) + SumSeq(Tail(s))

(***************************************************************************)
(* scoring.py                                                              *)
(***************************************************************************)
CATEGORIES ==
    <<"content", "title", "description", "h1", "structure", "no_spa",
      "robots", "alt_text", "schema">>

Cat(score, max, status) == [score |-> score, max |-> max, status |-> status]

content_category(content) ==
    LET word_count == Get(content, "word_count", 0) IN
    IF word_count >= 500 THEN Cat(25, 25, "excellent")
    ELSE IF word_count >= 200 THEN Cat(15, 25, "good")
    ELSE IF word_count >= 50 THEN Cat(8, 25, "warning")
    ELSE Cat(2, 25, "critical")

title_category(structure) ==
    IF Get(structure, "has_title", FALSE) /\ Get(structure, "title_length", 0) >= 10
    THEN Cat(10, 10, "excellent")
    ELSE IF Get(structure, "has_title", FALSE) THEN Cat(5, 10, "warning")
    ELSE Cat(0, 10, "critical")

description_category(structure) ==
    LET desc_length == Get(structure, "description_length", 0) IN
    IF 120 <= desc_length /\ desc_length <= 160 THEN Cat(10, 10, "excellent")
    ELSE IF Get(structure, "has_description", FALSE) THEN Cat(5, 10, "warning")
    ELSE Cat(0, 10, "critical")

h1_category(structure) ==
    LET h1_count == Get(structure, "h1_count", 0) IN
    IF h1_count = 1 THEN Cat(10, 10, "excellent")
    ELSE IF h1_count > 1 THEN Cat(5, 10, "warning")
    ELSE Cat(0, 10, "critical")

\* full points for two semantic elements already
structure_category_lenient(structure) ==
    LET semantic_count == Get(structure, "semantic_count", 0) IN
    IF semantic_count >= 2 THEN Cat(10, 10, "excellent")
    ELSE IF semantic_count >= 1 THEN Cat(3, 10, "warning")
    ELSE Cat(0, 10, "critical")

structure_category(structure) ==
    LET semantic_count == Get(structure, "semantic_count", 0) IN
    IF semantic_count >= 4 THEN Cat(10, 10, "excellent")
    ELSE IF semantic_count >= 2 THEN Cat(6, 10, "good")
    ELSE IF semantic_count >= 1 THEN Cat(3, 10, "warning")
    ELSE Cat(0, 10, "critical")

\* the branches in another order: thin content decides before the empty shell
no_spa_thin_first(content) ==
    IF ~Get(content, "is_spa_empty", FALSE) /\ Get(content, "has_content", FALSE)
    THEN Cat(15, 15, "excellent")
    ELSE IF ~Get(content, "has_content", FALSE) THEN Cat(8, 15, "warning")
    ELSE Cat(0, 15, "critical")

no_spa_category(content) ==
    IF ~Get(content, "is_spa_empty", FALSE) /\ Get(content, "has_content", FALSE)
    THEN Cat(15, 15, "excellent")
    ELSE IF Get(content, "is_spa_empty", FALSE) THEN Cat(0, 15, "critical")
    ELSE Cat(8, 15, "warning")

robots_category(robots) ==
    IF Get(robots, "allows_all", FALSE) THEN Cat(10, 10, "excellent")
    ELSE LET blocked == Get(robots, "blocked_count", 0) IN
         IF blocked > 4 THEN Cat(0, 10, "critical")
         ELSE IF blocked > 0 THEN Cat(5, 10, "warning")
         ELSE Cat(10, 10, "excellent")

alt_text_category(structure) ==
    LET alt_percentage == Get(structure, "images_alt_percentage", 100) IN
    IF alt_percentage >= 80 THEN Cat(5, 5, "excellent")
    ELSE IF alt_percentage >= 50 THEN Cat(3, 5, "warning")
    ELSE Cat(0, 5, "critical")

schema_category(schema) ==
    IF Get(schema, "has_schema", FALSE) THEN Cat(5, 5, "excellent")
    ELSE Cat(0, 5, "warning")

\* ", ".join(types) raises TypeError when an item of types is not a str.
\* A type value is [k |-> "str" | "list" | "num", s |-> its text].
schema_detail_raises(schema) ==
    LET types == Get(schema, "types", <<>>) IN
    types # <<>> /\ \E i \in DOMAIN types : types[i].k # "str"

calculate_score(content, structure, robots, schema) ==
    IF schema_detail_raises(schema)
    THEN [raised |-> TRUE, error |-> "TypeError"]
    ELSE LET breakdown ==
                 [content     |-> content_category(content),
                  title       |-> title_category(structure),
                  description |-> description_category(structure),
                  h1          |-> h1_category(structure),
                  structure   |-> structure_category(structure),
                  no_spa      |-> no_spa_category(content),
                  robots      |-> robots_category(robots),
                  alt_text    |-> alt_text_category(structure),
                  schema      |-> schema_category(schema)]
         IN [raised    |-> FALSE,
             total     |-> SumSeq([i \in DOMAIN CATEGORIES |->
                                       breakdown[CATEGORIES[i]].score]),
             max       |-> 100,
             breakdown |-> breakdown]

\* scoring.py, get_status with the bands' lower limits exclusive
get_status_above(score) ==
    IF score > 85 THEN [status |-> "excelente", emoji |-> "check mark", color |-> "#22c55e"]
    ELSE IF score > 70 THEN [status |-> "bueno", emoji |-> "green circle", color |-> "#22c55e"]
    ELSE IF score > 50 THEN [status |-> "mejorable", emoji |-> "yellow circle", color |-> "#f59e0b"]
    ELSE IF score > 30 THEN [status |-> "deficiente", emoji |-> "orange circle", color |-> "#f97316"]
    ELSE [status |-> "critico", emoji |-> "red circle", color |-> "#ef4444"]

\* scoring.py, get_status; an emoji is written by its name
get_status(score) ==
    IF score >= 85 THEN [status |-> "excelente", emoji |-> "check mark", color |-> "#22c55e"]
    ELSE IF score >= 70 THEN [status |-> "bueno", emoji |-> "green circle", color |-> "#22c55e"]
    ELSE IF score >= 50 THEN [status |-> "mejorable", emoji |-> "yellow circle", color |-> "#f59e0b"]
    ELSE IF score >= 30 THEN [status |-> "deficiente", emoji |-> "orange circle", color |-> "#f97316"]
    ELSE [status |-> "critico", emoji |-> "red circle", color |-> "#ef4444"]

(***************************************************************************)
(* recommendations.py                                                      *)
(*                                                                         *)
(* A recommendation is [priority, title]; title is a key for the source's  *)
(* title text:                                                             *)
(*   ai_blocked   "Tu servidor bloquea activamente a las IAs"              *)
(*   spa          "Tu web usa Client-Side Rendering (SPA vacia)"           *)
(*   robots       "Tu robots.txt bloquea crawlers de IA"                   *)
(*   content_low  "Contenido insuficiente detectado"                       *)
(*   content_mid  "Contenido limitado"                                     *)
(*   desc_missing "Falta meta description"                                 *)
(*   desc_range   "Meta description fuera del rango optimo"                *)
(*   h1_missing   "Falta encabezado H1"                                    *)
(*   h1_multiple  "Multiples H1 detectados"                                *)
(*   schema       "No se detectaron datos estructurados"                   *)
(*   alt          "Imagenes sin texto alternativo"                         *)
(*   semantic     "Estructura semantica limitada"                          *)
(*   noai         "Meta tag 'noai' detectado"                              *)
(***************************************************************************)
Rec(priority, title) == [priority |-> priority, title |-> title]

\* an order that puts critical behind every other priority
priority_order_critical_last(p) ==
    CASE p = "critical" -> 5
      [] p = "high"     -> 1
      [] p = "medium"   -> 2
      [] p = "low"      -> 3
      [] p = "info"     -> 4
      [] OTHER          -> 5

\* priority_order.get(x["priority"], 5)
priority_order(p) ==
    CASE p = "critical" -> 0
      [] p = "high"     -> 1
      [] p = "medium"   -> 2
      [] p = "low"      -> 3
      [] p = "info"     -> 4
      [] OTHER          -> 5

\* list.sort(key=...) is stable: an item goes behind every item whose key is
\* not larger than its own (binary insertion, the rightmost position).
\* a sort that is not stable: the item goes before the items of equal key
RECURSIVE InsertBeforeEqual(_, _)
InsertBeforeEqual(sorted, x) ==
    IF sorted = <<>> THEN <<x>>
    ELSE IF priority_order(Head(sorted).priority) < priority_order(x.priority)
         THEN <<Head(sorted)>> \o InsertBeforeEqual(Tail(sorted), x)
         ELSE <<x>> \o sorted

RECURSIVE InsertByKey(_, _)
InsertByKey(sorted, x) ==
    IF sorted = <<>> THEN <<x>>
    ELSE IF priority_order(Head(sorted).priority) <= priority_order(x.priority)
         THEN <<Head(sorted)>> \o InsertByKey(Tail(sorted), x)
         ELSE <<x>> \o sorted

RECURSIVE SortFrom(_, _)
SortFrom(sorted, rest) ==
    IF rest = <<>> THEN sorted
    ELSE SortFrom(InsertByKey(sorted, Head(rest)), Tail(rest))

sort_by_priority(recs) == SortFrom(<<>>, recs)

When(cond, rec) == IF cond THEN <<rec>> ELSE <<>>

\* the names the robots recommendation lists
blocked_names(robots) ==
    LET crawlers == Get(robots, "crawlers", <<>>) IN
    {k \in DOMAIN crawlers : crawlers[k] = "blocked"}

\* recommendations.py lines 19-139: the list as appended, before the sort
generated_recommendations(content, structure, robots, schema, sc, blocked) ==
    LET breakdown   == Get(sc, "breakdown", <<>>)
        desc_status == Get(Get(breakdown, "description", <<>>), "status", NONE)
        word_count  == Get(content, "word_count", 0)
        desc_length == Get(structure, "description_length", 0)
        h1_count    == Get(structure, "h1_count", 0)
    IN    When(blocked, Rec("critical", "ai_blocked"))
       \o When(Get(content, "is_spa_empty", FALSE), Rec("critical", "spa"))
       \o When(~Get(robots, "allows_all", TRUE) /\ blocked_names(robots) # {},
               Rec("high", "robots"))
       \o (IF word_count < 200 THEN <<Rec("high", "content_low")>>
           ELSE IF word_count < 500 THEN <<Rec("medium", "content_mid")>>
           ELSE <<>>)
       \o (IF desc_status # "excellent"
           THEN IF desc_length = 0 THEN <<Rec("medium", "desc_missing")>>
                ELSE <<Rec("low", "desc_range")>>
           ELSE <<>>)
       \o (IF h1_count = 0 THEN <<Rec("medium", "h1_missing")>>
           ELSE IF h1_count > 1 THEN <<Rec("low", "h1_multiple")>>
           ELSE <<>>)
       \o When(~Get(schema, "has_schema", FALSE), Rec("medium", "schema"))
       \o When(Get(structure, "images_alt_percentage", 100) < 80
               /\ Get(structure, "total_images", 0) > 0, Rec("low", "alt"))
       \o When(Get(structure, "semantic_count", 0) < 3, Rec("low", "semantic"))
       \o When(Get(structure, "has_noai", FALSE), Rec("info", "noai"))

generate_recommendations(content, structure, robots, schema, sc, blocked) ==
    sort_by_priority(
        generated_recommendations(content, structure, robots, schema, sc, blocked))

(***************************************************************************)
(* The parsed document (the BeautifulSoup tree), by what the components    *)
(* read from it:                                                           *)
(*   words              whitespace-separated tokens of the text outside    *)
(*                      the excluded tags                                  *)
(*   title_where        "none" | "head" | "body": where the first title    *)
(*                      element sits                                       *)
(*   title_length       length of its stripped string (0: no string)       *)
(*   description_length length of the content of <meta name=description>   *)
(*                      (0: no such tag, or no content)                    *)
(*   robots_meta        the directives among noai, noimageai that occur in *)
(*                      the content of <meta name=robots>                  *)
(*   h1_count, semantic (the tags among SEMANTIC_TAGS present),            *)
(*   total_images, images_with_alt                                         *)
(*   ld_scripts         the <script type=application/ld+json> elements     *)
(*   itemscopes         the itemtype of every element with itemscope       *)
(*   containers         candidate app-root containers                      *)
(***************************************************************************)
SEMANTIC_TAGS == <<"main", "article", "section", "nav", "header", "footer">>

\* content.py, SPA_MARKERS: (tag name, required id or NONE)
SPA_MARKERS ==
    << <<"div", "root">>, <<"div", "app">>, <<"div", "__next">>,
       <<"div", "__nuxt">>, <<"app-root", NONE>>,
       <<"div", "gatsby-focus-wrapper">> >>

\* soup.find_all(tag_name, attrs) matches elem
marker_matches(marker, elem) ==
    /\ elem.tag = marker[1]
    /\ marker[2] # NONE => elem.id = marker[2]

\* a check that wants every catalogue container of the page empty
check_spa_empty_every(tree) ==
    /\ \E m \in DOMAIN SPA_MARKERS : \E e \in DOMAIN tree.containers :
           marker_matches(SPA_MARKERS[m], tree.containers[e])
    /\ \A m \in DOMAIN SPA_MARKERS : \A e \in DOMAIN tree.containers :
           marker_matches(SPA_MARKERS[m], tree.containers[e])
               => /\ tree.containers[e].text_length < 100
                  /\ tree.containers[e].children <= 3

check_spa_empty(tree) ==
    \E m \in DOMAIN SPA_MARKERS : \E e \in DOMAIN tree.containers :
        /\ marker_matches(SPA_MARKERS[m], tree.containers[e])
        /\ tree.containers[e].text_length < 100
        /\ tree.containers[e].children <= 3

\* for tag in soup(EXCLUDE_TAGS): tag.decompose()
\* head, meta and script are excluded tags: a title inside head, every meta
\* element and every script element leave the tree.
decompose_excluded(tree) ==
    [tree EXCEPT !.title_where = IF @ = "head" THEN "none" ELSE @,
                 !.title_length = IF tree.title_where = "head" THEN 0 ELSE @,
                 !.description_length = 0,
                 !.robots_meta = {},
                 !.ld_scripts = <<>>]

count_words(tree) == tree.words

\* extract_content returns data and leaves the tree as tree
extract_content(tree) ==
    LET word_count == count_words(decompose_excluded(tree)) IN
    [data |-> [word_count   |-> word_count,
               is_spa_empty |-> check_spa_empty(tree),
               has_content  |-> word_count > 50],
     tree |-> decompose_excluded(tree)]

\* round(n / d) of the exact quotient, a half to the even neighbour
RoundHalfEven(n, d) ==
    LET q == n \div d
        r == n % d
    IN IF 2 * r < d THEN q
       ELSE IF 2 * r > d THEN q + 1
       ELSE IF q % 2 = 0 THEN q ELSE q + 1

(***************************************************************************)
(* structure.py line 66: round((len(images_with_alt) / len(images)) * 100) *)
(* is computed in binary64 floating point: the quotient is rounded to a    *)
(* double, its product with 100 is rounded to a double, and round() takes  *)
(* that double to the nearest integer, a half to the even neighbour.       *)
(* A positive double is [bits, exp]: 53 bits with the most significant     *)
(* first and a leading 1, of value bits * 2^exp. What lies beyond the last *)
(* bit of a bit string is "zero", "below" half a unit, "half" or "above".  *)
(***************************************************************************)
Zeros(n) == [i \in 1..n |-> 0]

Take(bits, n) == SubSeq(bits, 1, n)

Drop(bits, n) == SubSeq(bits, n + 1, Len(bits))

TailClass(tail, extra) ==
    IF tail = <<>> THEN extra
    ELSE LET more == extra # "zero" \/ \E i \in 2..Len(tail) : tail[i] = 1 IN
         IF tail[1] = 1 THEN (IF more THEN "above" ELSE "half")
         ELSE (IF more THEN "below" ELSE "zero")

RECURSIVE Increment(_)
Increment(bits) ==
    IF bits = <<>> THEN <<1>>
    ELSE IF bits[Len(bits)] = 0 THEN Take(bits, Len(bits) - 1) \o <<1>>
    ELSE Increment(Take(bits, Len(bits) - 1)) \o <<0>>

RECURSIVE BitsToInt(_)
BitsToInt(bits) ==
    IF bits = <<>> THEN 0
    ELSE 2 * BitsToInt(Take(bits, Len(bits) - 1)) + bits[Len(bits)]

\* round to nearest, ties to even: bits * 2^exp (and what lies beyond) as
\* a double
ToDouble(bits, exp, extra) ==
    LET kept == Take(bits, 53)
        tail == Drop(bits, 53)
        class == TailClass(tail, extra)
        up == class = "above" \/ (class = "half" /\ kept[53] = 1)
        m == IF up THEN Increment(kept) ELSE kept
    IN IF Len(m) = 54
       THEN [bits |-> Take(m, 53), exp |-> exp + Len(tail) + 1]
       ELSE [bits |-> m, exp |-> exp + Len(tail)]

\* the number of doublings that bring a up to t
RECURSIVE Doublings(_, _)
Doublings(a, t) == IF a >= t THEN 0 ELSE 1 + Doublings(2 * a, t)

RECURSIVE Doubled(_, _)
Doubled(a, t) == IF a >= t THEN a ELSE Doubled(2 * a, t)

\* the next n bits of r / t, for r < t, and the remainder behind them
RECURSIVE QuotientBits(_, _, _)
QuotientBits(r, t, n) ==
    IF n = 0 THEN <<>>
    ELSE IF 2 * r >= t THEN <<1>> \o QuotientBits(2 * r - t, t, n - 1)
    ELSE <<0>> \o QuotientBits(2 * r, t, n - 1)

RECURSIVE QuotientRem(_, _, _)
QuotientRem(r, t, n) ==
    IF n = 0 THEN r
    ELSE IF 2 * r >= t THEN QuotientRem(2 * r - t, t, n - 1)
    ELSE QuotientRem(2 * r, t, n - 1)

\* a / t for integers 0 < a <= t
true_divide(a, t) ==
    LET r0 == Doubled(a, t) - t
        rem == QuotientRem(r0, t, 52)
        extra == IF rem = 0 THEN "zero"
                 ELSE IF 2 * rem < t THEN "below"
                 ELSE IF 2 * rem = t THEN "half" ELSE "above"
    IN ToDouble(<<1>> \o QuotientBits(r0, t, 52), 0 - (Doublings(a, t) + 52), extra)

\* the bits of bits * k, from the last bit upwards with a carry
RECURSIVE MulSmall(_, _, _, _, _)
MulSmall(bits, k, i, carry, acc) ==
    IF i = 0
    THEN IF carry = 0 THEN acc
         ELSE MulSmall(bits, k, 0, carry \div 2, <<carry % 2>> \o acc)
    ELSE MulSmall(bits, k, i - 1, (bits[i] * k + carry) \div 2,
                  <<(bits[i] * k + carry) % 2>> \o acc)

\* d * k for a double d and an integer k > 0
multiply(d, k) == ToDouble(MulSmall(d.bits, k, Len(d.bits), 0, <<>>), d.exp, "zero")

\* round(d) for a double d below 2^53
round_double(d) ==
    LET s == 0 - d.exp
        padded == IF Len(d.bits) < s THEN Zeros(s - Len(d.bits)) \o d.bits
                  ELSE d.bits
        whole == BitsToInt(Take(padded, Len(padded) - s))
        class == TailClass(Drop(padded, Len(padded) - s), "zero")
    IN IF class = "above" \/ (class = "half" /\ whole % 2 = 1)
       THEN whole + 1 ELSE whole

images_alt_percentage(total, with_alt) ==
    IF total > 0
    THEN IF with_alt = 0 THEN 0
         ELSE round_double(multiply(true_divide(with_alt, total), 100))
    ELSE 100

analyze_structure(tree) ==
    [has_title          |-> tree.title_where # "none" /\ tree.title_length > 0,
     title_length       |-> IF tree.title_where # "none" THEN tree.title_length ELSE 0,
     has_description    |-> tree.description_length > 0,
     description_length |-> tree.description_length,
     h1_count           |-> tree.h1_count,
     semantic_count     |-> Cardinality({i \in DOMAIN SEMANTIC_TAGS :
                                            SEMANTIC_TAGS[i] \in tree.semantic}),
     total_images       |-> tree.total_images,
     images_with_alt    |-> tree.images_with_alt,
     images_alt_percentage |->
         images_alt_percentage(tree.total_images, tree.images_with_alt),
     has_noai           |-> "noai" \in tree.robots_meta,
     has_noimageai      |-> "noimageai" \in tree.robots_meta]

(***************************************************************************)
(* schema_detector.py                                                      *)
(*                                                                         *)
(* A script is [json, items]: json says what json.loads makes of its text  *)
(*   "empty"   no text (script.string is None or "")                       *)
(*   "invalid" json.loads raises JSONDecodeError                           *)
(*   "object"  a JSON object, items = <<it>>                               *)
(*   "list"    a JSON list of items                                        *)
(*   "scalar"  a number, a string, true, false or null                     *)
(* An item is [dict, type]: dict says whether it is a JSON object, type is *)
(* the value of its @type, [k, s] with k = "absent" when it has none.      *)
(***************************************************************************)
Str(s) == [k |-> "str", s |-> s]
NoType == [k |-> "absent", s |-> ""]
ListOfNames == [k |-> "list", s |-> "Organization,LocalBusiness"]

Item(t) == [dict |-> TRUE, type |-> t]
NotAnObject == [dict |-> FALSE, type |-> NoType]
Object(t) == [json |-> "object", items |-> <<Item(t)>>]
List(items) == [json |-> "list", items |-> items]
Invalid == [json |-> "invalid", items |-> <<>>]
Empty == [json |-> "empty", items |-> <<>>]
Scalar == [json |-> "scalar", items |-> <<>>]

\* item.get('@type', 'Unknown')
schema_type(item) == IF item.type.k = "absent" THEN Str("Unknown") ELSE item.type

\* an append that does not look for the type among those seen
AppendAlways(types, t) == Append(types, t)

\* if schema_type not in result['types']: result['types'].append(schema_type)
AppendNew(types, t) == IF t \in Range(types) THEN types ELSE Append(types, t)

\* one item of a parsed value: raises AttributeError when it is no object
add_item(acc, item) ==
    IF acc.raised THEN acc
    ELSE IF ~item.dict THEN [acc EXCEPT !.raised = TRUE]
    ELSE [acc EXCEPT !.json_ld = Append(@, [type |-> schema_type(item), data |-> item]),
                     !.types = AppendNew(@, schema_type(item))]

RECURSIVE add_items(_, _)
add_items(acc, items) ==
    IF items = <<>> THEN acc ELSE add_items(add_item(acc, Head(items)), Tail(items))

\* a scan that lets the JSONDecodeError of an unparsable script escape
scan_script_decode_error_escapes(acc, script) ==
    IF acc.raised THEN acc
    ELSE CASE script.json = "empty"   -> acc
           [] script.json = "invalid" -> [acc EXCEPT !.raised = TRUE]
           [] script.json = "scalar"  -> [acc EXCEPT !.raised = TRUE]
           [] OTHER                   -> add_items(acc, script.items)

\* the body of the loop over json_ld_scripts (lines 25-50)
scan_script(acc, script) ==
    IF acc.raised THEN acc
    ELSE CASE script.json = "empty"   -> acc
           [] script.json = "invalid" -> acc    \* except JSONDecodeError: continue
           [] script.json = "scalar"  -> [acc EXCEPT !.raised = TRUE]
           [] OTHER                   -> add_items(acc, script.items)

RECURSIVE scan_scripts(_, _)
scan_scripts(acc, scripts) ==
    IF scripts = <<>> THEN acc
    ELSE scan_scripts(scan_script(acc, Head(scripts)), Tail(scripts))

\* item_type.split('/')[-1] if '/' in item_type else item_type
\* an itemtype is the sequence of its segments between the '/' separators
type_name(item_type) == item_type[Len(item_type)]

\* the body of the loop over microdata_elements (lines 54-65)
scan_itemscope(acc, item_type) ==
    IF item_type = <<>> THEN acc
    ELSE [acc EXCEPT !.microdata = Append(@, [type |-> type_name(item_type),
                                              itemtype |-> item_type]),
                     !.types = AppendNew(@, Str(type_name(item_type)))]

RECURSIVE scan_itemscopes(_, _)
scan_itemscopes(acc, elems) ==
    IF elems = <<>> THEN acc
    ELSE scan_itemscopes(scan_itemscope(acc, Head(elems)), Tail(elems))

detect_schema(tree) ==
    LET start == [raised |-> FALSE, json_ld |-> <<>>, microdata |-> <<>>,
                  types |-> <<>>]
        after_ld == scan_scripts(start, tree.ld_scripts)
        acc == scan_itemscopes(after_ld, tree.itemscopes)
    IN IF after_ld.raised
       THEN [raised |-> TRUE, error |-> "AttributeError"]
       ELSE [raised        |-> FALSE,
             has_schema    |-> Len(acc.json_ld) > 0 \/ Len(acc.microdata) > 0,
             json_ld       |-> acc.json_ld,
             microdata     |-> acc.microdata,
             types         |-> acc.types,
             total_schemas |-> Len(acc.json_ld) + Len(acc.microdata)]

(***************************************************************************)
(* robots.py                                                               *)
(*                                                                         *)
(* The robots document is the sequence of its lines; a line is             *)
(* [field, value]: the text before the first ':' and the stripped text     *)
(* behind it. A blank line has field "", a comment line field "#".         *)
(***************************************************************************)
\* analyzer.py, AI_CRAWLERS
AI_CRAWLERS ==
    <<"GPTBot", "ChatGPT-User", "ClaudeBot", "anthropic-ai", "Google-Extended",
      "CCBot", "PerplexityBot", "Bytespider">>

\* str.lower() on the words the model's documents and crawler lists use
Lower(s) ==
    CASE s = "GPTBot"          -> "gptbot"
      [] s = "ChatGPT-User"    -> "chatgpt-user"
      [] s = "ClaudeBot"       -> "claudebot"
      [] s = "Google-Extended" -> "google-extended"
      [] s = "CCBot"           -> "ccbot"
      [] s = "PerplexityBot"   -> "perplexitybot"
      [] s = "Bytespider"      -> "bytespider"
      [] s = "User-agent"      -> "user-agent"
      [] s = "User-Agent"      -> "user-agent"
      [] s = "Disallow"        -> "disallow"
      [] s = "Allow"           -> "allow"
      [] s = "Sitemap"         -> "sitemap"
      [] OTHER                 -> s

Line(field, value) == [field |-> field, value |-> value]

Rule(rule_type, path) == [rule_type |-> rule_type, path |-> path]

\* rules = {}; rules[agent] = [] for a new agent
with_agent(rule_map, agent) ==
    IF agent \in DOMAIN rule_map THEN rule_map ELSE rule_map @@ (agent :> <<>>)

\* for agent in current_agents: rules[agent].append((rule_type, path))
RECURSIVE append_rule(_, _, _)
append_rule(rule_map, agents, rule) ==
    IF agents = <<>> THEN rule_map
    ELSE LET r == with_agent(rule_map, Head(agents)) IN
         append_rule([r EXCEPT ![Head(agents)] = Append(@, rule)], Tail(agents), rule)

\* a parser that groups the agents: a user-agent line adds its agent to the
\* active ones
parse_line_grouping(st, line) ==
    LET field == Lower(line.field)
        value == Lower(line.value)
    IN IF field = "" \/ field = "#" THEN st
       ELSE IF field = "user-agent"
            THEN [current_agents |-> Append(st.current_agents, value),
                  rules |-> with_agent(st.rules, value)]
       ELSE IF field \in {"disallow", "allow"} /\ st.current_agents # <<>>
            THEN [st EXCEPT !.rules =
                      append_rule(@, st.current_agents, Rule(field, value))]
       ELSE st

\* the body of the loop over lines (lines 56-79); st is [current_agents, rules]
parse_line(st, line) ==
    LET field == Lower(line.field)
        value == Lower(line.value)
    IN IF field = "" \/ field = "#" THEN st
       ELSE IF field = "user-agent"
            THEN [current_agents |-> <<value>>,
                  rules |-> with_agent(st.rules, value)]
       ELSE IF field = "disallow" /\ st.current_agents # <<>>
            THEN [st EXCEPT !.rules =
                      append_rule(@, st.current_agents, Rule("disallow", value))]
       ELSE IF field = "allow" /\ st.current_agents # <<>>
            THEN [st EXCEPT !.rules =
                      append_rule(@, st.current_agents, Rule("allow", value))]
       ELSE st

\* a test in which an allow of the root lifts the disallow
root_disallowed_unless_allowed(rule_list) ==
    /\ \E i \in DOMAIN rule_list :
           rule_list[i].rule_type = "disallow" /\ rule_list[i].path \in {"/", ""}
    /\ \A i \in DOMAIN rule_list :
           ~(rule_list[i].rule_type = "allow" /\ rule_list[i].path = "/")

\* a test that takes every disallowed path for the root
root_disallowed_any_path(rule_list) ==
    \E i \in DOMAIN rule_list : rule_list[i].rule_type = "disallow"

\* for rule_type, path in rule_list: if rule_type == 'disallow' and path in ['/', '']
root_disallowed(rule_list) ==
    \E i \in DOMAIN rule_list :
        rule_list[i].rule_type = "disallow" /\ rule_list[i].path \in {"/", ""}

\* a failed retrieval reported as a block of every crawler
fetch_error_result_blocks(names) ==
    [exists |-> FALSE, allows_all |-> TRUE, error |-> "Could not fetch robots.txt",
     crawlers |-> [c \in Range(names) |-> "blocked"]]

\* a resolution that takes an empty list of the crawler's own for no list
crawler_status_empty_list_is_none(rule_map, crawler) ==
    LET crawler_lower == Lower(crawler) IN
    IF crawler_lower \in DOMAIN rule_map /\ rule_map[crawler_lower] # <<>>
    THEN IF root_disallowed(rule_map[crawler_lower]) THEN "blocked" ELSE "allowed"
    ELSE IF "*" \in DOMAIN rule_map
         THEN IF root_disallowed(rule_map["*"]) THEN "blocked" ELSE "allowed"
         ELSE "allowed"

\* a resolution that never consults the wildcard agent
crawler_status_own_rules_only(rule_map, crawler) ==
    IF Lower(crawler) \in DOMAIN rule_map /\ root_disallowed(rule_map[Lower(crawler)])
    THEN "blocked" ELSE "allowed"

\* the status one crawler resolves to (lines 86-108)
crawler_status(rule_map, crawler) ==
    LET crawler_lower == Lower(crawler) IN
    IF crawler_lower \in DOMAIN rule_map
    THEN IF root_disallowed(rule_map[crawler_lower]) THEN "blocked" ELSE "allowed"
    ELSE IF "*" \in DOMAIN rule_map
         THEN IF root_disallowed(rule_map["*"]) THEN "blocked" ELSE "allowed"
         ELSE "allowed"

\* crawlers_status[crawler] = status
set_status(crawlers, crawler, status) ==
    IF crawler \in DOMAIN crawlers THEN [crawlers EXCEPT ![crawler] = status]
    ELSE crawlers @@ (crawler :> status)

\* the body of the loop over ai_crawlers; st is [crawlers_status, blocked_count]
check_crawler(rule_map, st, crawler) ==
    LET status == crawler_status(rule_map, crawler) IN
    [crawlers_status |-> set_status(st.crawlers_status, crawler, status),
     blocked_count   |-> IF status = "blocked" THEN st.blocked_count + 1
                         ELSE st.blocked_count]

\* lines 110-113: a crawler without a status becomes allowed
RECURSIVE fill_missing(_, _)
fill_missing(crawlers, names) ==
    IF names = <<>> THEN crawlers
    ELSE fill_missing(IF Head(names) \in DOMAIN crawlers THEN crawlers
                      ELSE crawlers @@ (Head(names) :> "allowed"), Tail(names))

\* a result that claims allows_all whatever was counted
parsed_result_always_allows(st, names) ==
    [exists        |-> TRUE,
     allows_all    |-> TRUE,
     blocked_count |-> st.blocked_count,
     crawlers      |-> fill_missing(st.crawlers_status, names)]

\* the dict parse_robots returns (lines 115-120)
parsed_result(st, names) ==
    [exists        |-> TRUE,
     allows_all    |-> st.blocked_count = 0,
     blocked_count |-> st.blocked_count,
     crawlers      |-> fill_missing(st.crawlers_status, names)]

RECURSIVE parse_lines(_, _)
parse_lines(st, lines) ==
    IF lines = <<>> THEN st ELSE parse_lines(parse_line(st, Head(lines)), Tail(lines))

RECURSIVE check_crawlers(_, _, _)
check_crawlers(rule_map, st, names) ==
    IF names = <<>> THEN st
    ELSE check_crawlers(rule_map, check_crawler(rule_map, st, Head(names)), Tail(names))

NoRules == [current_agents |-> <<>>, rules |-> <<>>]
NoStatus == [crawlers_status |-> <<>>, blocked_count |-> 0]

parse_robots(content, names) ==
    parsed_result(
        check_crawlers(parse_lines(NoRules, content).rules, NoStatus, names), names)

\* {crawler: status for crawler in ai_crawlers}
all_crawlers(names, status) == [c \in Range(names) |-> status]

\* analyze_robots, status 404 (lines 18-24)
not_found_result(names) ==
    [exists |-> FALSE, allows_all |-> TRUE,
     crawlers |-> all_crawlers(names, "allowed")]

\* analyze_robots, another status or an exception (lines 26-32, 37-43)
fetch_error_result(names) ==
    [exists |-> FALSE, allows_all |-> TRUE, error |-> "Could not fetch robots.txt",
     crawlers |-> all_crawlers(names, "unknown")]

\* resp is [completed, status_code, text]; completed is FALSE when
\* client.get raised
analyze_robots(resp, names) ==
    IF ~resp.completed THEN fetch_error_result(names)
    ELSE IF resp.status_code = 404 THEN not_found_result(names)
    ELSE IF resp.status_code # 200 THEN fetch_error_result(names)
    ELSE parse_robots(resp.text, names)

(***************************************************************************)
(* Inputs of the scoring engine and the recommendation generator: results  *)
(* the four components return.                                             *)
(***************************************************************************)
MaxImages == 2

WordCounts == {49, 50, 51, 200, 500}

ContentResults ==
    {[word_count |-> w, is_spa_empty |-> e, has_content |-> w > 50] :
        w \in WordCounts, e \in BOOLEAN}

Soup(tw, tl, dl, rm, h1, sem, ti, ia, ld, isc, cs) ==
    [words |-> 0, title_where |-> tw, title_length |-> tl,
     description_length |-> dl, robots_meta |-> rm, h1_count |-> h1,
     semantic |-> sem, total_images |-> ti, images_with_alt |-> ia,
     ld_scripts |-> ld, itemscopes |-> isc, containers |-> cs]

\* the first n semantic tags
FirstTags(n) == {SEMANTIC_TAGS[i] : i \in 1..n}

TitleSamples == {<<"none", 0>>, <<"head", 9>>, <<"head", 10>>}

\* documents without a robots meta element
PlainSoups ==
    {Soup(t[1], t[2], dl, {}, h1, FirstTags(n), ti, ia, <<>>, <<>>, <<>>) :
        t \in TitleSamples, dl \in {0, 119, 120, 161},
        h1 \in 0..2, n \in 0..4,
        ti \in 0..MaxImages, ia \in 0..MaxImages}

\* what a robots meta element can hold of the two opt-out directives
OptOuts == {{"noai"}, {"noimageai"}, {"noai", "noimageai"}}

\* documents with a robots meta element that opts out
OptOutSoups ==
    {[s EXCEPT !.robots_meta = rm] :
        s \in {x \in PlainSoups : x.total_images = 0
                                  /\ x.description_length \in {0, 120}},
        rm \in OptOuts}

StructureSoups == PlainSoups \cup OptOutSoups

StructureResults ==
    {analyze_structure(s) : s \in {x \in StructureSoups :
                                      x.images_with_alt <= x.total_images}}

SchemaSoups ==
    {Soup("none", 0, 0, {}, 0, {}, 0, 0, ld, <<>>, <<>>) :
        ld \in {<<>>, <<Object(Str("Organization"))>>,
                <<Object(ListOfNames)>>}}

SchemaResults == {detect_schema(s) : s \in SchemaSoups}

RobotsTexts ==
    {<<>>,
     <<Line("User-agent", "*"), Line("Disallow", "/")>>,
     <<Line("User-agent", "GPTBot"), Line("Disallow", "/")>>}

RobotsResults ==
    {parse_robots(t, AI_CRAWLERS) : t \in RobotsTexts}
        \cup {not_found_result(AI_CRAWLERS)}

(***************************************************************************)
(* SpecScore: calculate_score, then generate_recommendations, applied to   *)
(* results drawn from the sets above.                                      *)
(***************************************************************************)
InitScore ==
    /\ pc = "inputs"
    /\ requests = <<>>
    /\ content_data \in ContentResults
    /\ structure_data \in StructureResults
    /\ robots_data \in RobotsResults
    /\ schema_data \in SchemaResults
    /\ is_ai_blocked = FALSE
    /\ scores = NONE
    /\ recommendations = NONE
    /\ status_code = 200 /\ html = NONE /\ result = NONE
    /\ soup = NONE /\ ran = <<>>
    /\ ai_crawlers = AI_CRAWLERS /\ response = NONE /\ line_no = 0
    /\ current_agents = <<>> /\ rules = <<>> /\ crawler_no = 0
    /\ crawlers_status = <<>> /\ blocked_count = 0

CalculateScore ==
    /\ pc = "inputs"
    /\ scores' = calculate_score(content_data, structure_data, robots_data,
                                 schema_data)
    /\ pc' = IF scores'.raised THEN "raised" ELSE "scored"
    /\ UNCHANGED <<urlVars, docVars, robots_data, recommendations, robotsVars>>

\* the caller passes the flag fetch_url gave it
GenerateRecommendations ==
    /\ pc = "scored"
    /\ \E flag \in BOOLEAN :
           /\ is_ai_blocked' = flag
           /\ recommendations' =
                  generate_recommendations(content_data, structure_data,
                                           robots_data, schema_data, scores, flag)
    /\ pc' = "recommended"
    /\ UNCHANGED <<status_code, html, requests, result, docVars, robots_data, scores,
                   robotsVars>>

NextScore == CalculateScore \/ GenerateRecommendations

SpecScore == InitScore /\ [][NextScore]_vars

(***************************************************************************)
(* Properties of the scoring engine and the recommendation generator       *)
(* (SpecScore)                                                             *)
(***************************************************************************)
CATEGORY_MAX ==
    [content |-> 25, title |-> 10, description |-> 10, h1 |-> 10,
     structure |-> 10, no_spa |-> 15, robots |-> 10, alt_text |-> 5,
     schema |-> 5]

\* a returned breakdown: the nine categories, their maxima, every score
\* within its maximum, total the sum of the scores and within 0..100
WellFormedScore(sc) ==
    /\ DOMAIN sc.breakdown = Range(CATEGORIES)
    /\ \A c \in Range(CATEGORIES) :
           /\ sc.breakdown[c].max = CATEGORY_MAX[c]
           /\ 0 <= sc.breakdown[c].score
           /\ sc.breakdown[c].score <= sc.breakdown[c].max
    /\ SumSeq([i \in DOMAIN CATEGORIES |-> CATEGORY_MAX[CATEGORIES[i]]]) = 100
    /\ sc.total = SumSeq([i \in DOMAIN CATEGORIES |->
                              sc.breakdown[CATEGORIES[i]].score])
    /\ 0 <= sc.total /\ sc.total <= 100

\* C1: for every combination of content, structure, robots and schema
\* results, calculate_score returns a breakdown with exactly the nine
\* categories and their fixed maxima (sum 100), every score within 0..max,
\* total the sum of the nine scores and within 0..100.
C1_ScoreReturnsWellFormedBreakdown ==
    pc \in {"scored", "raised", "recommended"} =>
        /\ ~scores.raised
        /\ WellFormedScore(scores)

\* Every breakdown calculate_score does return is well formed.
ReturnedBreakdownWellFormed ==
    pc \in {"scored", "recommended"} => WellFormedScore(scores)

\* the place of a recommendation's condition in the order of evaluation
ConditionOrder(title) ==
    CASE title = "ai_blocked" -> 0
      [] title = "spa" -> 1
      [] title = "robots" -> 2
      [] title \in {"content_low", "content_mid"} -> 3
      [] title \in {"desc_missing", "desc_range"} -> 4
      [] title \in {"h1_missing", "h1_multiple"} -> 5
      [] title = "schema" -> 6
      [] title = "alt" -> 7
      [] title = "semantic" -> 8
      [] title = "noai" -> 9

SeverityRank(priority) ==
    CASE priority = "critical" -> 0
      [] priority = "high" -> 1
      [] priority = "medium" -> 2
      [] priority = "low" -> 3
      [] priority = "info" -> 4

\* C3: the returned list is sorted by non-decreasing severity rank, and two
\* recommendations of equal severity keep the order in which their
\* conditions are evaluated.
C3_SortedBySeverityStable ==
    pc = "recommended" =>
        \A i, j \in DOMAIN recommendations :
            i < j =>
                /\ SeverityRank(recommendations[i].priority)
                       <= SeverityRank(recommendations[j].priority)
                /\ recommendations[i].priority = recommendations[j].priority
                       => ConditionOrder(recommendations[i].title)
                              < ConditionOrder(recommendations[j].title)

\* the sort moved an item forward, and items of equal severity are listed
C3_Witness ==
    /\ pc = "recommended"
    /\ recommendations #
           generated_recommendations(content_data, structure_data, robots_data,
                                     schema_data, scores, is_ai_blocked)
    /\ \E i, j \in DOMAIN recommendations :
           i < j /\ recommendations[i].priority = recommendations[j].priority

ScenarioB ==
    /\ content_data.is_spa_empty
    /\ content_data.word_count < 50
    /\ ~structure_data.has_title
    /\ structure_data.h1_count = 0
    /\ ~is_ai_blocked

\* C8: Scenario B: an analysis of an empty shell with fewer than 50 words,
\* no title and no h1, access not degraded, has no_spa = 0, content = 2,
\* title = 0 and h1 = 0, and its first recommendation is the critical
\* client-side-rendering one.
C8_ScenarioB ==
    (pc = "recommended" /\ ScenarioB) =>
        /\ scores.breakdown.no_spa.score = 0
        /\ scores.breakdown.content.score = 2
        /\ scores.breakdown.title.score = 0
        /\ scores.breakdown.h1.score = 0
        /\ recommendations # <<>>
        /\ recommendations[1] = Rec("critical", "spa")

C8_Witness ==
    /\ pc = "recommended"
    /\ ScenarioB
    /\ Len(recommendations) > 1

InfoEntries ==
    {i \in DOMAIN recommendations : recommendations[i].priority = "info"}

OptedOut == structure_data.has_noai \/ structure_data.has_noimageai

\* C14: whenever an opt-out directive is present in the StructureResult
\* (has_noai or has_noimageai), the recommendation list holds exactly one
\* recommendation of priority info; when neither flag is set it holds none.
C14_OptOutAdvisory ==
    pc = "recommended" =>
        Cardinality(InfoEntries) = (IF OptedOut THEN 1 ELSE 0)

\* what the generator does: the advisory follows has_noai alone
C14_AdvisoryFollowsNoai ==
    pc = "recommended" =>
        Cardinality(InfoEntries) = (IF structure_data.has_noai THEN 1 ELSE 0)


HasEntry(title) ==
    \E i \in DOMAIN recommendations : recommendations[i].title = title

\* C23: generate_recommendations emits the critical access-blocked
\* recommendation exactly when is_ai_blocked is true, and then as the first
\* entry of the list, ahead of the critical client-side-rendering one when
\* both conditions hold; a critical entry is in the list only when
\* is_ai_blocked or is_spa_empty holds.
C23_AccessBlockedFirst ==
    pc = "recommended" =>
        /\ HasEntry("ai_blocked") <=> is_ai_blocked
        /\ is_ai_blocked => recommendations[1] = Rec("critical", "ai_blocked")
        /\ (is_ai_blocked /\ content_data.is_spa_empty) =>
               recommendations[2] = Rec("critical", "spa")
        /\ \A i \in DOMAIN recommendations :
               recommendations[i].priority = "critical"
                   => is_ai_blocked \/ content_data.is_spa_empty

\* access blocked, an empty shell and recommendations of lower priority
C23_Witness ==
    /\ pc = "recommended"
    /\ is_ai_blocked /\ content_data.is_spa_empty
    /\ Len(recommendations) > 2
    /\ recommendations[1].title = "ai_blocked"
    /\ recommendations[2].title = "spa"

\* C25: for results of the four components, whenever calculate_score
\* returns total = 100, access was not degraded and has_noai is false,
\* generate_recommendations returns the empty list.
C25_FullScoreNoRecommendation ==
    (pc = "recommended" /\ scores.total = 100 /\ ~is_ai_blocked
        /\ ~structure_data.has_noai) => recommendations = <<>>

C25_Witness ==
    /\ pc = "recommended"
    /\ scores.total = 100
    /\ ~is_ai_blocked /\ ~structure_data.has_noai
    /\ structure_data.total_images > 0
    /\ recommendations = <<>>

(***************************************************************************)
(* SpecRobots: analyze_robots on one response, parse_robots line by line   *)
(* and crawler by crawler.                                                 *)
(***************************************************************************)
MaxLines == 3
MaxCrawlers == 2

RobotsLines ==
    {Line("", ""), Line("#", "comment"),
     Line("User-agent", "*"), Line("User-Agent", "GPTBot"),
     Line("Disallow", "/"), Line("disallow", ""), Line("Disallow", "/private"),
     Line("Allow", "/")}

SeqsUpTo(S, n) == UNION {[1..k -> S] : k \in 0..n}

RobotsDocuments == SeqsUpTo(RobotsLines, MaxLines)

CrawlerLists == SeqsUpTo({"GPTBot", "CCBot"}, MaxCrawlers)

Response(completed, code, text) ==
    [completed |-> completed, status_code |-> code, text |-> text]

RobotsResponses ==
    {Response(FALSE, 0, <<>>), Response(TRUE, 404, <<>>), Response(TRUE, 500, <<>>)}
        \cup {Response(TRUE, 200, t) : t \in RobotsDocuments}

InitRobots ==
    /\ pc = "request"
    /\ requests = <<>>
    /\ ai_crawlers \in CrawlerLists
    /\ response = NONE
    /\ robots_data = NONE
    /\ line_no = 0 /\ crawler_no = 0
    /\ current_agents = <<>> /\ rules = <<>>
    /\ crawlers_status = <<>> /\ blocked_count = 0
    /\ status_code = 200 /\ is_ai_blocked = FALSE /\ html = NONE /\ result = NONE
    /\ soup = NONE /\ ran = <<>>
    /\ content_data = NONE /\ structure_data = NONE /\ schema_data = NONE
    /\ scores = NONE /\ recommendations = NONE

\* lines 14-33, 37-43: the request, and the results that need no parsing
RobotsRequest ==
    /\ pc = "request"
    /\ \E r \in RobotsResponses :
           /\ response' = r
           /\ IF r.completed /\ r.status_code = 200
              THEN /\ pc' = "lines"
                   /\ line_no' = 1
                   /\ UNCHANGED robots_data
              ELSE /\ pc' = "returned"
                   /\ robots_data' = analyze_robots(r, ai_crawlers)
                   /\ UNCHANGED line_no
    /\ UNCHANGED <<urlVars, docVars, scoreVars, ai_crawlers, current_agents,
                   rules, crawler_no, crawlers_status, blocked_count>>

\* one pass of the loop over lines
ParseLine ==
    /\ pc = "lines"
    /\ line_no <= Len(response.text)
    /\ LET st == parse_line([current_agents |-> current_agents, rules |-> rules],
                            response.text[line_no])
       IN /\ current_agents' = st.current_agents
          /\ rules' = st.rules
    /\ line_no' = line_no + 1
    /\ UNCHANGED <<pc, urlVars, docVars, robots_data, scoreVars, ai_crawlers,
                   response, crawler_no, crawlers_status, blocked_count>>

\* lines 81-83: the loop over lines is over
StartCrawlers ==
    /\ pc = "lines"
    /\ line_no > Len(response.text)
    /\ pc' = "crawlers"
    /\ crawler_no' = 1
    /\ crawlers_status' = <<>>
    /\ blocked_count' = 0
    /\ UNCHANGED <<urlVars, docVars, robots_data, scoreVars, ai_crawlers,
                   response, line_no, current_agents, rules>>

\* one pass of the loop over ai_crawlers
CheckCrawler ==
    /\ pc = "crawlers"
    /\ crawler_no <= Len(ai_crawlers)
    /\ LET st == check_crawler(rules,
                     [crawlers_status |-> crawlers_status,
                      blocked_count |-> blocked_count],
                     ai_crawlers[crawler_no])
       IN /\ crawlers_status' = st.crawlers_status
          /\ blocked_count' = st.blocked_count
    /\ crawler_no' = crawler_no + 1
    /\ UNCHANGED <<pc, urlVars, docVars, robots_data, scoreVars, ai_crawlers,
                   response, line_no, current_agents, rules>>

\* lines 110-120
ReturnRobots ==
    /\ pc = "crawlers"
    /\ crawler_no > Len(ai_crawlers)
    /\ robots_data' = parsed_result([crawlers_status |-> crawlers_status,
                                     blocked_count |-> blocked_count],
                                    ai_crawlers)
    /\ pc' = "returned"
    /\ UNCHANGED <<urlVars, docVars, scoreVars, robotsVars>>

NextRobots ==
    RobotsRequest \/ ParseLine \/ StartCrawlers \/ CheckCrawler \/ ReturnRobots

SpecRobots == InitRobots /\ [][NextRobots]_vars

(***************************************************************************)
(* Properties of the robots policy evaluator (SpecRobots)                  *)
(***************************************************************************)
\* C2: every RobotsResult, for any crawler list and any of the three
\* retrieval outcomes, has allows_all true exactly when blocked_count is 0
\* (a result without the key reads as 0, as every reader of it does with
\* .get("blocked_count", 0)), and its crawlers mapping has an entry for
\* every requested name and for no other, each allowed, blocked or unknown.
C2_RobotsResultInvariant ==
    pc = "returned" =>
        /\ robots_data.allows_all <=> (Get(robots_data, "blocked_count", 0) = 0)
        /\ DOMAIN robots_data.crawlers = Range(ai_crawlers)
        /\ \A c \in DOMAIN robots_data.crawlers :
               robots_data.crawlers[c] \in {"allowed", "blocked", "unknown"}

\* a parsed document that blocks one of two requested crawlers
C2_Witness ==
    /\ pc = "returned"
    /\ response.status_code = 200
    /\ Cardinality(DOMAIN robots_data.crawlers) = 2
    /\ robots_data.blocked_count = 1
    /\ ~robots_data.allows_all

ScenarioC ==
    /\ response.completed
    /\ response.status_code = 200
    /\ response.text = <<Line("User-agent", "*"), Line("Disallow", "/")>>

AllBlocked ==
    /\ \A c \in Range(ai_crawlers) : robots_data.crawlers[c] = "blocked"
    /\ ~robots_data.allows_all
    /\ robots_data.blocked_count = Len(ai_crawlers)

\* C9 as stated: Scenario C: for the document "User-agent: *", "Disallow: /"
\* and any list of requested crawlers, every crawler is blocked, allows_all
\* is false and blocked_count is the length of the list.
C9_ScenarioC_AnyList ==
    (pc = "returned" /\ ScenarioC) => AllBlocked

\* C9 as amended: the same for any list that names at least one crawler.
C9_ScenarioC_NonEmptyList ==
    (pc = "returned" /\ ScenarioC /\ ai_crawlers # <<>>) => AllBlocked

C9_Witness ==
    /\ pc = "returned"
    /\ ScenarioC
    /\ Len(ai_crawlers) = 2
    /\ robots_data.blocked_count = 2

NotFound == response.completed /\ response.status_code = 404
Parsed == response.completed /\ response.status_code = 200

EveryCrawler(status) ==
    \A c \in Range(ai_crawlers) : robots_data.crawlers[c] = status

\* C11: when the robots document is not found the result has exists false,
\* allows_all true and every requested crawler allowed; when retrieval fails
\* in any other way it has exists false, allows_all true, an error note and
\* every requested crawler unknown; in neither case is a crawler blocked.
C11_UncertainFetchNeverBlocks ==
    (pc = "returned" /\ ~Parsed) =>
        /\ ~robots_data.exists
        /\ robots_data.allows_all
        /\ \A c \in DOMAIN robots_data.crawlers :
               robots_data.crawlers[c] # "blocked"
        /\ IF NotFound
           THEN EveryCrawler("allowed")
           ELSE "error" \in DOMAIN robots_data /\ EveryCrawler("unknown")

\* a failed retrieval for two requested crawlers
C11_Witness ==
    /\ pc = "returned"
    /\ ~Parsed /\ ~NotFound
    /\ Cardinality(DOMAIN robots_data.crawlers) = 2
    /\ EveryCrawler("unknown")

\* The document read as the claim words it, without the parser's state:
\* the agent a directive line belongs to is the one named by the closest
\* user-agent line above it.
IsField(line, name) == Lower(line.field) = name

AgentLinesBefore(text, i) ==
    {j \in 1..(i - 1) : IsField(text[j], "user-agent")}

Max(S) == CHOOSE x \in S : \A y \in S : y <= x

AgentOf(text, i) ==
    IF AgentLinesBefore(text, i) = {} THEN NONE
    ELSE Lower(text[Max(AgentLinesBefore(text, i))].value)

Named(text, agent) ==
    \E j \in DOMAIN text :
        IsField(text[j], "user-agent") /\ Lower(text[j].value) = agent

RootDisallowedFor(text, agent) ==
    \E i \in DOMAIN text :
        /\ IsField(text[i], "disallow")
        /\ text[i].value \in {"/", ""}
        /\ AgentOf(text, i) = agent

Resolution(text, crawler) ==
    IF Named(text, Lower(crawler))
    THEN IF RootDisallowedFor(text, Lower(crawler)) THEN "blocked" ELSE "allowed"
    ELSE IF Named(text, "*")
         THEN IF RootDisallowedFor(text, "*") THEN "blocked" ELSE "allowed"
         ELSE "allowed"

\* C12: on a parsed document each requested crawler is resolved by its name
\* without regard to case: with a rule list of its own it is blocked exactly
\* when that list has a disallow of "/" or of the empty path, without one
\* exactly when the list of "*" has, and with no applicable list it is
\* allowed; a disallow of any other path never blocks.
C12_CrawlerResolution ==
    (pc = "returned" /\ Parsed) =>
        \A c \in Range(ai_crawlers) :
            robots_data.crawlers[c] = Resolution(response.text, c)

\* the wildcard blocks, GPTBot has a list of its own that does not, and a
\* disallow of another path is in the document
C12_Witness ==
    /\ pc = "returned" /\ Parsed
    /\ ai_crawlers = <<"GPTBot", "CCBot">>
    /\ "gptbot" \in DOMAIN rules
    /\ robots_data.crawlers["GPTBot"] = "allowed"
    /\ robots_data.crawlers["CCBot"] = "blocked"

\* a disallow of a path below the root is in force and blocks nobody
C12_OtherPathWitness ==
    /\ pc = "returned" /\ Parsed
    /\ ai_crawlers # <<>>
    /\ \E a \in DOMAIN rules : \E i \in DOMAIN rules[a] :
           rules[a][i] = Rule("disallow", "/private")
    /\ robots_data.allows_all

BlockedEntries ==
    {c \in DOMAIN robots_data.crawlers : robots_data.crawlers[c] = "blocked"}

\* C16: for any robots document and any ordered list of requested crawlers,
\* blocked_count is the number of entries of the crawlers mapping whose
\* status is blocked.
C16_BlockedCountIsBlockedEntries ==
    pc = "returned" =>
        Get(robots_data, "blocked_count", 0) = Cardinality(BlockedEntries)

\* the same for lists that name no crawler twice
C16_DistinctNames ==
    (pc = "returned" /\ Cardinality(Range(ai_crawlers)) = Len(ai_crawlers)) =>
        Get(robots_data, "blocked_count", 0) = Cardinality(BlockedEntries)


\* the lines of the document read so far and the parse in progress or done
Reading == pc \in {"lines", "crawlers"} \/ (pc = "returned" /\ Parsed)

IsDirective(line) == IsField(line, "disallow") \/ IsField(line, "allow")

\* the directives among lines i..n that belong to agent, in document order
RECURSIVE DirectivesOf(_, _, _, _)
DirectivesOf(text, i, n, agent) ==
    IF i > n THEN <<>>
    ELSE (IF IsDirective(text[i]) /\ AgentOf(text, i) = agent
          THEN <<Rule(Lower(text[i].field), Lower(text[i].value))>>
          ELSE <<>>) \o DirectivesOf(text, i + 1, n, agent)

\* C21: while parse_robots reads the lines in order one agent at most is
\* active, the one named by the closest user-agent line read so far; the
\* rule list of an agent holds, in document order, the disallow and allow
\* lines that follow a user-agent line naming it with no other user-agent
\* line in between, and nothing else; directives before the first
\* user-agent line, comments and blank lines leave no trace; prefixes and
\* agent names are matched without regard to case.
C21_OneActiveAgent ==
    Reading =>
        LET n == line_no - 1 IN
        /\ current_agents = (IF AgentOf(response.text, line_no) = NONE THEN <<>>
                             ELSE <<AgentOf(response.text, line_no)>>)
        /\ DOMAIN rules = {Lower(response.text[k].value) :
                               k \in {m \in 1..n :
                                         IsField(response.text[m], "user-agent")}}
        /\ \A a \in DOMAIN rules :
               rules[a] = DirectivesOf(response.text, 1, n, a)

\* two user-agent lines in a row, then a directive: it is in the list of
\* the second agent alone
C21_Witness ==
    /\ pc = "lines" /\ line_no = 4
    /\ IsField(response.text[1], "user-agent")
    /\ IsField(response.text[2], "user-agent")
    /\ DOMAIN rules = {"*", "gptbot"}
    /\ rules["*"] = <<>>
    /\ rules["gptbot"] = <<Rule("disallow", "/")>>

\* C26: a requested crawler that a user-agent line of the document names is
\* resolved from its own rule list and never from the list of "*": it is
\* blocked exactly when its own list has a root disallow, and so allowed
\* when that list is empty and when "*" carries Disallow: /.
C26_OwnListOnly ==
    (pc = "returned" /\ Parsed) =>
        \A c \in Range(ai_crawlers) :
            Named(response.text, Lower(c)) =>
                (robots_data.crawlers[c] = "blocked"
                    <=> RootDisallowedFor(response.text, Lower(c)))

\* GPTBot is named and has an empty list, "*" is disallowed the root
C26_Witness ==
    /\ pc = "returned" /\ Parsed
    /\ "GPTBot" \in Range(ai_crawlers)
    /\ "gptbot" \in DOMAIN rules /\ rules["gptbot"] = <<>>
    /\ "*" \in DOMAIN rules /\ rules["*"] = <<Rule("disallow", "/")>>
    /\ robots_data.crawlers["GPTBot"] = "allowed"

NotAllow(line) == ~IsField(line, "allow")

\* C27: allow directives never change the outcome: for any document and
\* crawler list the result is the result for the document without its allow
\* lines, so a crawler whose list has a root disallow and an allow is
\* blocked.
C27_AllowChangesNothing ==
    (pc = "returned" /\ Parsed) =>
        LET without == parse_robots(SelectSeq(response.text, NotAllow), ai_crawlers)
        IN /\ robots_data.crawlers = without.crawlers
           /\ robots_data.blocked_count = without.blocked_count
           /\ robots_data.allows_all = without.allows_all

\* a root disallow and a root allow in the list of "*"
C27_Witness ==
    /\ pc = "returned" /\ Parsed
    /\ ai_crawlers # <<>>
    /\ "*" \in DOMAIN rules
    /\ rules["*"] = <<Rule("disallow", "/"), Rule("allow", "/")>>
    /\ robots_data.blocked_count = Len(ai_crawlers)

(***************************************************************************)
(* SpecDoc: the three document components, each once and in any order, on  *)
(* one parsed document.                                                    *)
(***************************************************************************)
MaxScripts == 2
MaxItems == 1

Scripts ==
    {Invalid, Empty, Scalar, Object(Str("Organization")), Object(NoType),
     Object(ListOfNames), List(<<Item(Str("Organization")), Item(Str("Person"))>>),
     List(<<Item(Str("Organization")), NotAnObject>>)}

ItemTypes ==
    {<<>>, <<"https:", "", "schema.org", "Product">>, <<"Organization">>}

Documents ==
    {Soup(t[1], t[2], dl, rm, 1, FirstTags(2), 0, 0, ld, isc, <<>>) :
        t \in {<<"none", 0>>, <<"head", 12>>, <<"body", 12>>},
        dl \in {0, 140}, rm \in {{}, {"noai"}},
        ld \in SeqsUpTo(Scripts, MaxScripts),
        isc \in SeqsUpTo(ItemTypes, MaxItems)}

\* BeautifulSoup(html_content, 'lxml'): the page is given as its tree
Parse(page) == page

InitDoc ==
    /\ pc = "doc"
    /\ requests = <<>>
    /\ html \in Documents
    /\ soup = Parse(html)
    /\ ran = <<>>
    /\ content_data = NONE /\ structure_data = NONE /\ schema_data = NONE
    /\ status_code = 200 /\ is_ai_blocked = FALSE /\ result = NONE
    /\ robots_data = NONE /\ scores = NONE /\ recommendations = NONE
    /\ ai_crawlers = AI_CRAWLERS /\ response = NONE /\ line_no = 0
    /\ current_agents = <<>> /\ rules = <<>> /\ crawler_no = 0
    /\ crawlers_status = <<>> /\ blocked_count = 0

ExtractContent ==
    /\ pc = "doc"
    /\ "content" \notin Range(ran)
    /\ content_data' = extract_content(soup).data
    /\ soup' = extract_content(soup).tree
    /\ ran' = Append(ran, "content")
    /\ UNCHANGED <<pc, urlVars, structure_data, schema_data, robots_data,
                   scoreVars, robotsVars>>

AnalyzeStructure ==
    /\ pc = "doc"
    /\ "structure" \notin Range(ran)
    /\ structure_data' = analyze_structure(soup)
    /\ ran' = Append(ran, "structure")
    /\ UNCHANGED <<pc, urlVars, soup, content_data, schema_data, robots_data,
                   scoreVars, robotsVars>>

DetectSchema ==
    /\ pc = "doc"
    /\ "schema" \notin Range(ran)
    /\ schema_data' = detect_schema(soup)
    /\ ran' = Append(ran, "schema")
    /\ UNCHANGED <<pc, urlVars, soup, content_data, structure_data, robots_data,
                   scoreVars, robotsVars>>

NextDoc == ExtractContent \/ AnalyzeStructure \/ DetectSchema

SpecDoc == InitDoc /\ [][NextDoc]_vars

(***************************************************************************)
(* Properties of the document components (SpecDoc)                         *)
(***************************************************************************)
HasRun(component) == component \in Range(ran)

\* the tree a component was given: the fresh parse, or what extract_content
\* left of it
SeenBy(component) ==
    IF \E i, j \in DOMAIN ran : i < j /\ ran[i] = "content" /\ ran[j] = component
    THEN decompose_excluded(Parse(html))
    ELSE Parse(html)

\* C5: the three components leave the parsed document unchanged, so each
\* returns, in every order of running them on one document, the result it
\* returns on a fresh parse.
C5_ComponentsLeaveDocumentUnchanged ==
    pc = "doc" =>
        /\ soup = Parse(html)
        /\ HasRun("content") => content_data = extract_content(Parse(html)).data
        /\ HasRun("structure") => structure_data = analyze_structure(Parse(html))
        /\ HasRun("schema") => schema_data = detect_schema(Parse(html))

Parsable(script) == script.json # "invalid"

\* a script the scan can read: unparsable, without text, an object or a list
\* of objects
Readable(script) ==
    /\ script.json # "scalar"
    /\ \A i \in DOMAIN script.items : script.items[i].dict

Scanned == pc = "doc" /\ HasRun("schema")

Returned == Scanned /\ ~schema_data.raised

\* item-type value -> the type name the claim gives it: the last path
\* segment, which for a value without separator is the value
LastSegment(item_type) == item_type[Len(item_type)]

\* C15: every element with an item-scope marker contributes exactly one
\* inline-attribute record, so there are as many microdata records as
\* item-scope elements (with or without an item-type value), and a record's
\* type name is the last path segment of the item-type value.
C15_OneRecordPerItemScope ==
    Returned =>
        LET elems == SeenBy("schema").itemscopes IN
        /\ Len(schema_data.microdata) = Len(elems)
        /\ \A i \in DOMAIN elems :
               schema_data.microdata[i].type = LastSegment(elems[i])

\* what the detector does: one record for every item-scope element that
\* has an item-type value
C15_OneRecordPerItemType ==
    Returned =>
        LET typed == SelectSeq(SeenBy("schema").itemscopes,
                               LAMBDA t : t # <<>>) IN
        /\ Len(schema_data.microdata) = Len(typed)
        /\ \A i \in DOMAIN typed :
               /\ schema_data.microdata[i].type = LastSegment(typed[i])
               /\ schema_data.microdata[i].itemtype = typed[i]

\* the type values of the records, JSON-metadata records first
RecordTypes ==
    [i \in DOMAIN schema_data.json_ld |-> schema_data.json_ld[i].type]
        \o [i \in DOMAIN schema_data.microdata |->
                Str(schema_data.microdata[i].type)]

FirstAt(seq, x) == CHOOSE i \in DOMAIN seq :
                      seq[i] = x /\ \A j \in 1..(i - 1) : seq[j] # x

\* C17: has_schema is true exactly when a record was found in either
\* encoding, total_schemas is the number of JSON-metadata records plus the
\* number of inline-attribute records, and types holds the type of every
\* record exactly once, in first-seen order, JSON-metadata records first.
C17_SchemaResultInvariant ==
    Returned =>
        /\ schema_data.has_schema <=> (RecordTypes # <<>>)
        /\ schema_data.total_schemas =
               Len(schema_data.json_ld) + Len(schema_data.microdata)
        /\ Range(schema_data.types) = Range(RecordTypes)
        /\ \A i, j \in DOMAIN schema_data.types :
               i < j => /\ schema_data.types[i] # schema_data.types[j]
                        /\ FirstAt(RecordTypes, schema_data.types[i])
                               < FirstAt(RecordTypes, schema_data.types[j])

\* four records in both encodings, two of them of a type seen before
C17_Witness ==
    /\ Returned
    /\ Len(schema_data.json_ld) = 3
    /\ Len(schema_data.microdata) = 1
    /\ schema_data.types = <<Str("Organization"), Str("Person")>>

\* C19: embedded structured-data blocks are never fatal to the scan or to
\* scoring: for every sequence of metadata scripts, unparsable or valid JSON
\* of any shape, detect_schema returns a SchemaResult without raising and
\* calculate_score on that result returns a breakdown without raising.
C19_StructuredDataNeverFatal ==
    Scanned =>
        /\ ~schema_data.raised
        /\ ~calculate_score(<<>>, <<>>, <<>>, schema_data).raised

\* what the code does: the scan and the score go through when every parsed
\* value is an object or a list of objects and every @type is a string
StringTyped(script) ==
    \A i \in DOMAIN script.items : script.items[i].type.k # "list"

C19_FatalOnlyForOtherShapes ==
    Scanned =>
        LET scripts == SeenBy("schema").ld_scripts IN
        /\ ~schema_data.raised
               <=> \A i \in DOMAIN scripts : Readable(scripts[i])
        /\ (\A i \in DOMAIN scripts :
                Readable(scripts[i]) /\ StringTyped(scripts[i]))
               => ~calculate_score(<<>>, <<>>, <<>>, schema_data).raised

(***************************************************************************)
(* Spec: analyze_url, from the page request to its return.                 *)
(***************************************************************************)
Container(tag, id, text_length, children) ==
    [tag |-> tag, id |-> id, text_length |-> text_length, children |-> children]

Page(words, tw, tl, dl, h1, n, ti, ia, ld, isc, cs) ==
    [Soup(tw, tl, dl, {}, h1, FirstTags(n), ti, ia, ld, isc, cs)
        EXCEPT !.words = words]

\* pages with at least 500 words, a title, a description, one h1, four
\* semantic containers, every image with alt text and structured data
RichPages ==
    {Page(w, "head", 12, dl, 1, 4, ti, ti, sd[1], sd[2], <<>>) :
        w \in {500, 600}, dl \in {120, 140, 160}, ti \in {0, 2},
        sd \in {<< <<Object(Str("Organization"))>>, <<>> >>,
                << <<>>, << <<"https:", "", "schema.org", "Product">> >> >>}}

\* an empty client-rendered shell
ShellPage ==
    Page(2, "none", 0, 0, 0, 0, 0, 0, <<>>, <<>>,
         <<Container("div", "root", 10, 1)>>)

Pages == RichPages \cup {ShellPage}

\* the body of a response that is not analysed
NoPage == Page(0, "none", 0, 0, 0, 0, 0, 0, <<>>, <<>>, <<>>)

\* scoring.py lines 49-54: the parameters of calculate_score
calculate_score_parameters ==
    {"content_data", "structure_data", "robots_data", "schema_data"}

\* analyzer.py lines 113-119: the keyword arguments of the call
calculate_score_keywords ==
    {"content_data", "structure_data", "robots_data", "schema_data",
     "is_ai_blocked"}

\* a call with a keyword the function does not declare raises TypeError
call_raises(keywords, parameters) == keywords \ parameters # {}

\* analyzer.py lines 83-93
error_result ==
    [score |-> 0, status |-> "error", breakdown |-> <<>>,
     summary |-> [is_ai_blocked |-> TRUE]]

Init ==
    /\ pc = "fetch_url"
    /\ requests = <<>>
    /\ status_code = 0 /\ is_ai_blocked = FALSE /\ html = NoPage
    /\ result = NONE
    /\ soup = NONE /\ ran = <<>>
    /\ content_data = NONE /\ structure_data = NONE /\ schema_data = NONE
    /\ robots_data = NONE /\ scores = NONE /\ recommendations = NONE
    /\ ai_crawlers = AI_CRAWLERS /\ response = NONE /\ line_no = 0
    /\ current_agents = <<>> /\ rules = <<>> /\ crawler_no = 0
    /\ crawlers_status = <<>> /\ blocked_count = 0

\* a request of fetch_url and what came of it: completed is FALSE when
\* client.get raised
Request(headers, completed, code, text) ==
    [headers |-> headers, completed |-> completed, status_code |-> code,
     text |-> text]

\* the statuses the first response is drawn from, and the bodies that come
\* with a status
FirstStatuses == {200, 204, 401, 403, 404, 500}

FallbackStatuses == {200, 403, 503}

Bodies(code) == IF code < 400 THEN Pages ELSE {NoPage}

\* a fallback after every error status
needs_fallback_any_error(code) == code >= 400

\* fetch_url line 63: if response.status_code in [401, 403]
needs_fallback(code) == code \in {401, 403}

\* an error test that lets the client errors through
is_error_status_server_only(code) == code >= 500

\* analyze_url line 82: if status_code >= 400
is_error_status(code) == code >= 400

\* fetch_url lines 57-71: the request with the crawler's user agent
FetchFirst ==
    /\ pc = "fetch_url"
    /\ \/ \* client.get raised
          /\ requests' = <<Request("HEADERS", FALSE, 0, NoPage)>>
          /\ pc' = "fetched"
          /\ status_code' = 500 /\ is_ai_blocked' = FALSE /\ html' = NoPage
       \/ \E code \in FirstStatuses : \E page \in Bodies(code) :
          /\ requests' = <<Request("HEADERS", TRUE, code, page)>>
          /\ status_code' = code
          /\ IF needs_fallback(code)
             THEN /\ pc' = "fallback"
                  /\ UNCHANGED <<is_ai_blocked, html>>
             ELSE /\ pc' = "fetched"
                  /\ is_ai_blocked' = FALSE /\ html' = page
    /\ UNCHANGED <<result, docVars, robots_data, scoreVars, robotsVars>>

\* fetch_url lines 63-66: the request with the generic user agent
FetchFallback ==
    /\ pc = "fallback"
    /\ \/ \* client.get raised
          /\ requests' = Append(requests,
                                Request("GENERIC_HEADERS", FALSE, 0, NoPage))
          /\ status_code' = 500 /\ is_ai_blocked' = FALSE /\ html' = NoPage
       \/ \E code \in FallbackStatuses : \E page \in Bodies(code) :
          /\ requests' = Append(requests,
                                Request("GENERIC_HEADERS", TRUE, code, page))
          /\ status_code' = code /\ is_ai_blocked' = TRUE /\ html' = page
    /\ pc' = "fetched"
    /\ UNCHANGED <<result, docVars, robots_data, scoreVars, robotsVars>>

\* analyze_url lines 82-93
ReturnError ==
    /\ pc = "fetched"
    /\ is_error_status(status_code)
    /\ result' = error_result
    /\ pc' = "returned"
    /\ UNCHANGED <<status_code, is_ai_blocked, html, requests, docVars, robots_data,
                   scoreVars, robotsVars>>

\* analyze_url line 96
ParseHtml ==
    /\ pc = "fetched"
    /\ ~is_error_status(status_code)
    /\ soup' = Parse(html)
    /\ pc' = "extract_content"
    /\ UNCHANGED <<urlVars, ran, content_data, structure_data, schema_data,
                   robots_data, scoreVars, robotsVars>>

\* analyze_url line 99
UrlExtractContent ==
    /\ pc = "extract_content"
    /\ content_data' = extract_content(soup).data
    /\ soup' = extract_content(soup).tree
    /\ ran' = Append(ran, "content")
    /\ pc' = "analyze_structure"
    /\ UNCHANGED <<urlVars, structure_data, schema_data, robots_data,
                   scoreVars, robotsVars>>

\* analyze_url line 102
UrlAnalyzeStructure ==
    /\ pc = "analyze_structure"
    /\ structure_data' = analyze_structure(soup)
    /\ ran' = Append(ran, "structure")
    /\ pc' = "analyze_robots"
    /\ UNCHANGED <<urlVars, soup, content_data, schema_data, robots_data,
                   scoreVars, robotsVars>>

\* analyze_url lines 105-107
UrlAnalyzeRobots ==
    /\ pc = "analyze_robots"
    /\ \E r \in {Response(FALSE, 0, <<>>), Response(TRUE, 404, <<>>),
                 Response(TRUE, 500, <<>>)}
                    \cup {Response(TRUE, 200, t) : t \in RobotsTexts} :
           /\ response' = r
           /\ robots_data' = analyze_robots(r, AI_CRAWLERS)
    /\ pc' = "detect_schema"
    /\ UNCHANGED <<urlVars, docVars, scoreVars, ai_crawlers, line_no,
                   current_agents, rules, crawler_no, crawlers_status,
                   blocked_count>>

\* analyze_url line 110
UrlDetectSchema ==
    /\ pc = "detect_schema"
    /\ schema_data' = detect_schema(soup)
    /\ ran' = Append(ran, "schema")
    /\ pc' = "calculate_score"
    /\ UNCHANGED <<urlVars, soup, content_data, structure_data, robots_data,
                   scoreVars, robotsVars>>

\* analyze_url lines 113-119. The call raises, so the lines behind it
\* (121-153) never run.
UrlCalculateScore ==
    /\ pc = "calculate_score"
    /\ scores' =
           IF call_raises(calculate_score_keywords, calculate_score_parameters)
           THEN [raised |-> TRUE, error |-> "TypeError"]
           ELSE calculate_score(content_data, structure_data, robots_data,
                                schema_data)
    /\ pc' = IF scores'.raised THEN "raised" ELSE "scored"
    /\ UNCHANGED <<urlVars, docVars, robots_data, recommendations, robotsVars>>

Next ==
    \/ FetchFirst
    \/ FetchFallback
    \/ ReturnError
    \/ ParseHtml
    \/ UrlExtractContent
    \/ UrlAnalyzeStructure
    \/ UrlAnalyzeRobots
    \/ UrlDetectSchema
    \/ UrlCalculateScore

Spec == Init /\ [][Next]_vars

(***************************************************************************)
(* Properties of analyze_url (Spec)                                        *)
(***************************************************************************)
\* analyze_url has ended: it returned, or an exception left it
Ended == pc \in {"returned", "raised"}

\* C6: for every page fetch that ends with a status code below 400, with the
\* flag true or false, the call to calculate_score succeeds and analyze_url
\* returns a result whose score is the breakdown's total and whose breakdown
\* holds the nine categories.
C6_ScoreCallSucceeds ==
    (Ended /\ status_code < 400) =>
        /\ pc = "returned"
        /\ ~scores.raised
        /\ result.score = scores.total
        /\ DOMAIN result.breakdown = Range(CATEGORIES)

ScenarioA ==
    /\ html.words >= 500
    /\ html.title_where # "none" /\ html.title_length >= 10
    /\ 120 <= html.description_length /\ html.description_length <= 160
    /\ html.h1_count = 1
    /\ Cardinality(html.semantic) >= 4
    /\ ~check_spa_empty(html)
    /\ html.images_with_alt = html.total_images
    /\ detect_schema(html).has_schema
    /\ response.completed /\ response.status_code = 404

\* C7: Scenario A, for the whole pipeline run on one document: a page with
\* at least 500 words, a title of at least 10 characters, a description of
\* 120 to 160 characters, one h1, four semantic containers, no empty shell,
\* alt text on every image and structured data, with the robots document
\* absent, scores 100 with every category at its maximum.
C7_ScenarioA ==
    (Ended /\ status_code < 400 /\ ScenarioA) =>
        /\ ~scores.raised
        /\ scores.total = 100
        /\ \A c \in Range(CATEGORIES) :
               scores.breakdown[c].score = CATEGORY_MAX[c]

\* What the scoring engine gives for the four results the pipeline built
\* from a Scenario A page, were it called with its own parameters.
ScenarioA_ScoreOfPipelineResults ==
    (pc = "calculate_score" /\ ScenarioA) =>
        calculate_score(content_data, structure_data, robots_data,
                        schema_data).total = 100

(***************************************************************************)
(* SpecStatus: get_status on a total, as analyze_url calls it on the       *)
(* total of the breakdown (analyzer.py lines 122-123).                     *)
(***************************************************************************)
MAX_TOTAL == 100

Totals == 0..MAX_TOTAL

InitStatus ==
    /\ pc = "get_status"
    /\ requests = <<>>
    /\ scores \in {[total |-> t] : t \in Totals}
    /\ result = NONE
    /\ status_code = 200 /\ is_ai_blocked = FALSE /\ html = NONE
    /\ soup = NONE /\ ran = <<>>
    /\ content_data = NONE /\ structure_data = NONE /\ schema_data = NONE
    /\ robots_data = NONE /\ recommendations = NONE
    /\ ai_crawlers = <<>> /\ response = NONE
    /\ line_no = 0 /\ crawler_no = 0
    /\ current_agents = <<>> /\ rules = <<>>
    /\ crawlers_status = <<>> /\ blocked_count = 0

\* status_info = get_status(total_score)
GetStatus ==
    /\ pc = "get_status"
    /\ result' = get_status(scores.total)
    /\ pc' = "returned"
    /\ UNCHANGED <<status_code, is_ai_blocked, html, requests, docVars, robots_data,
                   scoreVars, robotsVars>>

NextStatus == GetStatus

SpecStatus == InitStatus /\ [][NextStatus]_vars

\* the bands of the status label: lowest total, highest total, label, glyph
Band(lo, hi, label, glyph) ==
    [lo |-> lo, hi |-> hi, label |-> label, glyph |-> glyph]

BANDS ==
    {Band(85, MAX_TOTAL, "excelente", "check mark"),
     Band(70, 84, "bueno", "green circle"),
     Band(50, 69, "mejorable", "yellow circle"),
     Band(30, 49, "deficiente", "orange circle"),
     Band(0, 29, "critico", "red circle")}

BandsOf(total) == {b \in BANDS : b.lo <= total /\ total <= b.hi}

\* C13: the status label is derived from the total by fixed bands: 85 and
\* more is excellent, 70..84 good, 50..69 improvable, 30..49 deficient,
\* below 30 critical; every total in 0..100 is in exactly one band, and
\* each band has one fixed glyph.
C13_StatusBands ==
    pc = "returned" =>
        /\ Cardinality(BandsOf(scores.total)) = 1
        /\ \A b \in BandsOf(scores.total) :
               result.status = b.label /\ result.emoji = b.glyph

\* the lowest total of the band "bueno"
C13_Witness ==
    /\ pc = "returned"
    /\ scores.total = 70
    /\ result.status = "bueno"

(***************************************************************************)
(* SpecShell: extract_content on documents with candidate app-root         *)
(* containers (content.py lines 33 and 56-72).                             *)
(***************************************************************************)
MaxContainers == 2

\* tag name and id of a container: three of the catalogue, a div with
\* another id, and another tag with a catalogue id
ContainerKinds ==
    {<<"div", "root">>, <<"div", "__next">>, <<"app-root", NONE>>,
     <<"div", "content">>, <<"section", "root">>}

ContainerSamples ==
    {[tag |-> k[1], id |-> k[2], text_length |-> tl, children |-> ch] :
        k \in ContainerKinds, tl \in {99, 100}, ch \in {3, 4}}

ShellDocuments ==
    {Soup("none", 0, 0, {}, 0, {}, 0, 0, <<>>, <<>>, cs) :
        cs \in SeqsUpTo(ContainerSamples, MaxContainers)}

InitShell ==
    /\ pc = "parsed"
    /\ requests = <<>>
    /\ html \in ShellDocuments
    /\ soup = Parse(html)
    /\ ran = <<>>
    /\ content_data = NONE /\ structure_data = NONE /\ schema_data = NONE
    /\ status_code = 200 /\ is_ai_blocked = FALSE /\ result = NONE
    /\ robots_data = NONE /\ scores = NONE /\ recommendations = NONE
    /\ ai_crawlers = <<>> /\ response = NONE /\ line_no = 0
    /\ current_agents = <<>> /\ rules = <<>> /\ crawler_no = 0
    /\ crawlers_status = <<>> /\ blocked_count = 0

\* content_data = extract_content(soup)
ShellExtractContent ==
    /\ pc = "parsed"
    /\ content_data' = extract_content(soup).data
    /\ soup' = extract_content(soup).tree
    /\ ran' = Append(ran, "content")
    /\ pc' = "extracted"
    /\ UNCHANGED <<urlVars, structure_data, schema_data, robots_data,
                   scoreVars, robotsVars>>

NextShell == ShellExtractContent

SpecShell == InitShell /\ [][NextShell]_vars

\* the fixed app-root catalogue, as the claim lists it
CatalogueIds == {"root", "app", "__next", "__nuxt", "gatsby-focus-wrapper"}

InCatalogue(c) == (c.tag = "div" /\ c.id \in CatalogueIds) \/ c.tag = "app-root"

EmptyShell(c) == c.text_length < 100 /\ c.children <= 3

\* C20: is_spa_empty is true exactly when the document has a container of
\* the app-root catalogue whose text is shorter than 100 characters and
\* which has 3 or fewer element children; a catalogue container with 100 or
\* more characters or 4 or more children never sets the flag, and one
\* qualifying container is enough when other catalogue containers are
\* populated.
C20_EmptyShellFlag ==
    pc = "extracted" =>
        (content_data.is_spa_empty <=>
            \E i \in DOMAIN html.containers :
                InCatalogue(html.containers[i]) /\ EmptyShell(html.containers[i]))

\* a populated catalogue container followed by an empty one
C20_Witness ==
    /\ pc = "extracted"
    /\ Len(html.containers) = 2
    /\ InCatalogue(html.containers[1]) /\ ~EmptyShell(html.containers[1])
    /\ InCatalogue(html.containers[2]) /\ EmptyShell(html.containers[2])
    /\ content_data.is_spa_empty

(***************************************************************************)
(* SpecImages: analyze_structure on pages with images, then the score and  *)
(* the recommendations for its result.                                     *)
(***************************************************************************)
MaxPageImages == 40

ImagePages ==
    {Soup("head", 12, 140, {}, 1, FirstTags(4), ti, ia, <<>>, <<>>, <<>>) :
        ti \in 0..MaxPageImages, ia \in 0..MaxPageImages}

InitImages ==
    /\ pc = "parsed"
    /\ requests = <<>>
    /\ html \in {p \in ImagePages : p.images_with_alt <= p.total_images}
    /\ soup = Parse(html)
    /\ ran = <<>>
    /\ content_data = [word_count |-> 600, is_spa_empty |-> FALSE,
                       has_content |-> TRUE]
    /\ structure_data = NONE
    /\ robots_data = not_found_result(AI_CRAWLERS)
    /\ schema_data = detect_schema(Parse(html))
    /\ scores = NONE /\ recommendations = NONE
    /\ status_code = 200 /\ is_ai_blocked = FALSE /\ result = NONE
    /\ ai_crawlers = AI_CRAWLERS /\ response = NONE /\ line_no = 0
    /\ current_agents = <<>> /\ rules = <<>> /\ crawler_no = 0
    /\ crawlers_status = <<>> /\ blocked_count = 0

\* structure_data = analyze_structure(soup)
ImagesAnalyzeStructure ==
    /\ pc = "parsed"
    /\ structure_data' = analyze_structure(soup)
    /\ ran' = Append(ran, "structure")
    /\ pc' = "analyzed"
    /\ UNCHANGED <<urlVars, soup, content_data, schema_data, robots_data,
                   scoreVars, robotsVars>>

ImagesCalculateScore ==
    /\ pc = "analyzed"
    /\ scores' = calculate_score(content_data, structure_data, robots_data,
                                 schema_data)
    /\ pc' = "scored"
    /\ UNCHANGED <<urlVars, docVars, robots_data, recommendations, robotsVars>>

ImagesGenerateRecommendations ==
    /\ pc = "scored"
    /\ recommendations' =
           generate_recommendations(content_data, structure_data, robots_data,
                                    schema_data, scores, is_ai_blocked)
    /\ pc' = "recommended"
    /\ UNCHANGED <<urlVars, docVars, robots_data, scores, robotsVars>>

NextImages ==
    ImagesAnalyzeStructure \/ ImagesCalculateScore
        \/ ImagesGenerateRecommendations

SpecImages == InitImages /\ [][NextImages]_vars

Analyzed == pc \in {"analyzed", "scored", "recommended"}

NoAltRecommendation ==
    \A i \in DOMAIN recommendations : recommendations[i].title # "alt"

\* C18: for every StructureResult images_with_alt <= total_images, and
\* images_alt_percentage is an integer in 0..100, equal to
\* round(100 * images_with_alt / total_images) when there are images and to
\* 100 when there are none, so that a page without images has the full 5
\* points in alt_text and no alt-text recommendation.
C18_AltPercentage ==
    /\ Analyzed =>
           /\ structure_data.images_with_alt <= structure_data.total_images
           /\ structure_data.images_alt_percentage \in 0..100
           /\ structure_data.images_alt_percentage =
                  (IF structure_data.total_images > 0
                   THEN RoundHalfEven(100 * structure_data.images_with_alt,
                                      structure_data.total_images)
                   ELSE 100)
    /\ (pc = "recommended" /\ structure_data.total_images = 0) =>
           /\ scores.breakdown["alt_text"].score = 5
           /\ NoAltRecommendation

\* what the code gives: an integer of 0..100 that is a nearest integer of
\* the exact percentage (at an exact half, either neighbour), and 100 and
\* the full 5 points for a page without images
C18_NearestInteger ==
    /\ Analyzed =>
           LET t == structure_data.total_images
               a == structure_data.images_with_alt
               p == structure_data.images_alt_percentage
           IN /\ a <= t
              /\ p \in 0..100
              /\ IF t > 0
                 THEN /\ 2 * (p * t - 100 * a) <= t
                      /\ 2 * (100 * a - p * t) <= t
                 ELSE p = 100
    /\ (pc = "recommended" /\ structure_data.total_images = 0) =>
           /\ scores.breakdown["alt_text"].score = 5
           /\ NoAltRecommendation

(***************************************************************************)
(* Properties of fetch_url and of the error path of analyze_url (Spec)     *)
(***************************************************************************)
Fetched == pc \notin {"fetch_url", "fallback"}

Refused(request) == request.completed /\ request.status_code \in {401, 403}

\* C22: fetch_url issues the crawler-identified request first and the
\* generic fallback request at most once and only after a first response of
\* status 401 or 403; it reports is_ai_blocked = true exactly when the first
\* response was 401 or 403 and the fallback request completed, with the
\* fallback's body and status, and is_ai_blocked = false for a first
\* response of 200 or of any other status and for a transport error in
\* either request, which it reports as status 500 with an empty body.
C22_FallbackOnlyAfterRefusal ==
    /\ Len(requests) <= 2
    /\ requests # <<>> => requests[1].headers = "HEADERS"
    /\ Len(requests) = 2 =>
           requests[2].headers = "GENERIC_HEADERS" /\ Refused(requests[1])
    /\ Fetched =>
           /\ requests # <<>>
           /\ Refused(requests[1]) => Len(requests) = 2
           /\ is_ai_blocked <=> (Refused(requests[1]) /\ requests[2].completed)
           /\ is_ai_blocked => /\ html = requests[2].text
                               /\ status_code = requests[2].status_code
           /\ (\E i \in DOMAIN requests : ~requests[i].completed) =>
                  status_code = 500 /\ html = NoPage /\ ~is_ai_blocked
           /\ (requests[1].completed /\ ~Refused(requests[1])) =>
                  /\ ~is_ai_blocked
                  /\ status_code = requests[1].status_code
                  /\ html = requests[1].text

\* the crawler-identified request was refused and the fallback got the page
C22_Witness ==
    /\ Fetched
    /\ Len(requests) = 2
    /\ requests[1].status_code = 403
    /\ is_ai_blocked /\ status_code = 200
    /\ html \in RichPages

\* C24: when the page fetch ends with a status code of 400 or more (an
\* error status, a fallback that also fails, a transport error reported as
\* 500), analyze_url returns the fixed error result with score 0, status
\* "error" and an empty breakdown, without parsing the page, requesting the
\* robots document or calling the scoring or recommendation components.
C24_ErrorResultOnly ==
    [][(pc \in {"fetched", "returned"} /\ status_code >= 400) =>
          /\ pc = "fetched" /\ pc' = "returned"
          /\ result' = error_result
          /\ result'.score = 0 /\ result'.status = "error"
          /\ DOMAIN result'.breakdown = {}
          /\ UNCHANGED <<status_code, docVars, robots_data, scoreVars,
                         robotsVars>>]_vars

\* the error result after a fallback request that failed too
C24_Witness ==
    /\ pc = "returned"
    /\ status_code = 503
    /\ Len(requests) = 2
    /\ result = error_result
    /\ ran = <<>>

====
